---- MODULE Spec2Model ----
(***************************************************************************)
(* Calculus.js: the plotting controller of the multivariable-derivative    *)
(* visualizer.  The model covers AppState, the DOM fields the controller   *)
(* reads and writes, the in-flight plotFunction invocations (each one      *)
(* suspended at its await of the two renders), the debounce closure with   *)
(* the browser's timer table, and the sampling arithmetic.                 *)
(*                                                                         *)
(* Numbers are exact rationals <<n, d>> (d > 0, lowest terms) extended     *)
(* with the three non-finite IEEE values: <<1,0>> = Infinity,              *)
(* <<-1,0>> = -Infinity, <<0,0>> = NaN.  Rounding and the sign of zero are *)
(* not modelled: every finite value the model computes is a small dyadic   *)
(* or a quotient the claims do not depend on to the last bit.              *)
(***************************************************************************)
EXTENDS Integers, Sequences, FiniteSets, TLC

\* ------------------------------------------------------------------------
\* Bounds of the model (not program constants).
\* ------------------------------------------------------------------------

\* User operations after load: the handlers that call plotFunction directly
\* (toggle, theme, reset, preset, Enter) and the 'input' events on the
\* expression field and the two sliders.
MaxOps == 2

\* The sampling grids run over [-GridEnd, GridEnd) in the model; the
\* program's grids run over [-5, 5) with the same steps.
GridEnd == 1

\* Largest slider position the model lets the user pick.
MaxSlider == 1

\* Granularity of the clock that ages pending timers, in milliseconds.
TickMs == 150

\* ------------------------------------------------------------------------
\* Program constants.
\* ------------------------------------------------------------------------

\* Utils.debounce(plotFunction, 300)
Wait == 300

\* resetView: document.getElementById('x0').value = 1 / ('y0').value = 2
ResetX0 == 1
ResetY0 == 2

\* ------------------------------------------------------------------------
\* Numbers.
\* ------------------------------------------------------------------------

Abs(n) == IF n < 0 THEN -n ELSE n

Sign(n) == IF n < 0 THEN -1 ELSE IF n > 0 THEN 1 ELSE 0

RECURSIVE Gcd(_, _)
Gcd(a, b) == IF b = 0 THEN a ELSE Gcd(b, a % b)

Norm(n, d) ==
  IF d = 0 THEN <<Sign(n), 0>>
  ELSE LET s == IF d < 0 THEN -1 ELSE 1
           g == Gcd(Abs(n), Abs(d))
       IN  <<(s * n) \div g, (s * d) \div g>>

Num(n) == <<n, 1>>
NaN == <<0, 0>>
Infinity == <<1, 0>>
IsFinite(a) == a[2] # 0

\* a + b
Add(a, b) ==
  IF ~IsFinite(a) /\ ~IsFinite(b)
    THEN (IF a = b THEN a ELSE NaN)
    ELSE Norm(a[1] * b[2] + b[1] * a[2], a[2] * b[2])

\* -a
Neg(a) == <<-a[1], a[2]>>

\* a - b
Sub(a, b) == Add(a, Neg(b))

\* a * b   (Infinity * 0 = NaN)
Mul(a, b) == Norm(a[1] * b[1], a[2] * b[2])

\* a / b   (1 / 0 = Infinity, 0 / 0 = NaN)
Div(a, b) ==
  IF ~IsFinite(a) /\ ~IsFinite(b) THEN NaN
  ELSE IF b[1] < 0 THEN Norm(-(a[1] * b[2]), a[2] * (-b[1]))
  ELSE Norm(a[1] * b[2], a[2] * b[1])

\* |a| < 1/1000
IsTiny(a) == IsFinite(a) /\ 1000 * Abs(a[1]) < a[2]

\* math.range(start, end, step).toArray(): start, start+step, ... below end
RECURSIVE Range(_, _, _)
Range(start, end, step) ==
  IF Sub(end, start)[1] <= 0 THEN <<>>
  ELSE <<start>> \o Range(Add(start, step), end, step)

\* ------------------------------------------------------------------------
\* Texts.  A text is the sequence of its characters.
\* ------------------------------------------------------------------------

TxtParab   == <<"x", "^", "2", " ", "+", " ", "y", "^", "2">>
TxtSquare  == <<"x", "^", "2">>
TxtSquareS == <<"x", "^", "2", " ">>
TxtInverse == <<"1", "/", "x">>
TxtFloor   == <<"f", "l", "o", "o", "r", "(", "x", ")">>
TxtDangle  == <<"x", " ", "+">>
TxtUnbound == <<"x", "+", "z">>
TxtBlank   == <<" ">>

\* What the user may type into the expression field.
TypedTexts ==
  {TxtSquare, TxtSquareS, TxtInverse, TxtFloor, TxtDangle, TxtUnbound, TxtBlank}

\* The values of the preset <select>'s options.
PresetTexts == {TxtParab}

\* Slider positions.
SliderValues == 0..MaxSlider

IsSpace(c) == c = " "

\* String.prototype.trim
RECURSIVE TrimLeft(_)
TrimLeft(s) ==
  IF s # <<>> /\ IsSpace(Head(s)) THEN TrimLeft(Tail(s)) ELSE s

RECURSIVE TrimRight(_)
TrimRight(s) ==
  IF s # <<>> /\ IsSpace(s[Len(s)]) THEN TrimRight(SubSeq(s, 1, Len(s) - 1)) ELSE s

Trim(s) == TrimRight(TrimLeft(s))

\* parseFloat of a slider's value
ParseFloat(v) == Num(v)

\* Number -> string, as a template literal renders it (integers here).
RECURSIVE Digits(_)
Digits(n) ==
  LET d == <<"0", "1", "2", "3", "4", "5", "6", "7", "8", "9">>[(n % 10) + 1]
  IN  IF n < 10 THEN <<d>> ELSE Digits(n \div 10) \o <<d>>

NumberToString(a) ==
  IF a = NaN THEN <<"N", "a", "N">>
  ELSE IF ~IsFinite(a) THEN (IF a[1] < 0 THEN <<"-">> ELSE <<>>) \o <<"I", "n", "f">>
  ELSE (IF a[1] < 0 THEN <<"-">> ELSE <<>>) \o Digits(Abs(a[1]))
       \o (IF a[2] = 1 THEN <<>> ELSE <<"/">> \o Digits(a[2]))

BoolToString(b) == IF b THEN <<"t", "r", "u", "e">> ELSE <<"f", "a", "l", "s", "e">>

\* ------------------------------------------------------------------------
\* The expression library (math.js), on the expressions of the model.
\* ------------------------------------------------------------------------

\* The parser skips blanks between tokens.
RECURSIVE StripSpaces(_)
StripSpaces(s) ==
  IF s = <<>> THEN <<>>
  ELSE IF IsSpace(Head(s)) THEN StripSpaces(Tail(s))
  ELSE <<Head(s)>> \o StripSpaces(Tail(s))

\* math.parse(expr): the node, or "SyntaxError" when it throws.
mathParse(expr) ==
  LET s == StripSpaces(expr) IN
  CASE s = StripSpaces(TxtParab)   -> "parab"
    [] s = TxtSquare               -> "square"
    [] s = TxtInverse              -> "inverse"
    [] s = TxtFloor                -> "floor"
    [] s = TxtUnbound              -> "unbound"
    [] OTHER                       -> "SyntaxError"

\* node.evaluate({x, y}) throws (an undefined symbol).
evaluateThrows(node) == node \in {"unbound", "SyntaxError"}

\* node.evaluate({x, y}), for a node that evaluates: the expressions and
\* their partial derivatives.  Division by zero gives Infinity, not an error.
evaluate(node, x, y) ==
  CASE node = "parab"   -> Add(Mul(x, x), Mul(y, y))
    [] node = "square"  -> Mul(x, x)
    [] node = "inverse" -> Div(Num(1), x)
    [] node = "floor"   -> IF IsFinite(x) THEN Num(x[1] \div x[2]) ELSE x
    [] node = "d/dx parab"   -> Mul(Num(2), x)
    [] node = "d/dy parab"   -> Mul(Num(2), y)
    [] node = "d/dx square"  -> Mul(Num(2), x)
    [] node = "d/dy square"  -> Num(0)
    [] node = "d/dx inverse" -> Neg(Div(Num(1), Mul(x, x)))
    [] node = "d/dy inverse" -> Num(0)
    [] OTHER -> NaN

\* math.derivative(node, v) throws: floor is not a differentiable function.
derivativeThrows(node) == node \notin {"parab", "square", "inverse"}

\* math.derivative(node, v)
derivative(node, v) ==
  CASE node = "parab"   -> IF v = "x" THEN "d/dx parab" ELSE "d/dy parab"
    [] node = "square"  -> IF v = "x" THEN "d/dx square" ELSE "d/dy square"
    [] node = "inverse" -> IF v = "x" THEN "d/dx inverse" ELSE "d/dy inverse"
    [] OTHER -> "Error"

\* A validateExpression that accepts every text.
validateExpressionAlways(expr) == TRUE

\* Utils.validateExpression(expr).valid: the text parses and evaluates at
\* the test point { x: 1, y: 1 }.
validateExpression(expr) ==
  LET parsed == mathParse(expr) IN
  /\ parsed # "SyntaxError"
  /\ ~evaluateThrows(parsed)

\* Utils.formatNumber(num, 2): '0' below 0.001, else two decimals (held as
\* the number of hundredths, rounded half away from zero).
formatNumber(num) ==
  IF IsTiny(num) THEN <<"0">>
  ELSE IF ~IsFinite(num) THEN NumberToString(num)
  ELSE LET h == (200 * Abs(num[1]) + num[2]) \div (2 * num[2])
       IN  <<"fixed2", Sign(num[1]) * h>>

\* ------------------------------------------------------------------------
\* PlotManager: sampling and assembly.
\* ------------------------------------------------------------------------

\* const range = math.range(-5, 5, 0.25).toArray()
Grid3D == Range(Num(-GridEnd), Num(GridEnd), <<1, 4>>)

\* math.range(-5, 5, gridStep).toArray(), gridStep = 0.5
Grid2D == Range(Num(-GridEnd), Num(GridEnd), <<1, 2>>)

\* The try block of generate3DPlotData / generate2DPlotData throws: parse,
\* derivative or an evaluation fails.
generateThrows(expr) ==
  LET f == mathParse(expr) IN
  \/ f = "SyntaxError"
  \/ derivativeThrows(f)
  \/ evaluateThrows(f)

\* (x, y) => f0 + fx0 * (x - x0) + fy0 * (y - y0)
tangent(f0, fx0, fy0, px, py, x, y) ==
  Add(Add(f0, Mul(fx0, Sub(x, px))), Mul(fy0, Sub(y, py)))

\* A generate3DPlotData whose tangent plane reads the surface's flag.
generate3DPlotDataSwapped(expr, px, py, visibility, dark) ==
  LET f   == mathParse(expr)
      fx  == derivative(f, "x")
      fy  == derivative(f, "y")
      fx0 == evaluate(fx, px, py)
      fy0 == evaluate(fy, px, py)
      f0  == evaluate(f, px, py)
      F(x, y) == evaluate(f, x, y)
      T(x, y) == tangent(f0, fx0, fy0, px, py, x, y)
  IN  [surface |->
         [x |-> Grid3D, y |-> Grid3D,
          z |-> [i \in 1..Len(Grid3D) |->
                  [j \in 1..Len(Grid3D) |-> F(Grid3D[i], Grid3D[j])]],
          type |-> "surface", name |-> "f(x,y)",
          colorscale |-> IF dark THEN "Viridis" ELSE "Blues",
          visible |-> visibility.surface],
       tangentPlane |->
         [x |-> Grid3D, y |-> Grid3D,
          z |-> [i \in 1..Len(Grid3D) |->
                  [j \in 1..Len(Grid3D) |-> T(Grid3D[i], Grid3D[j])]],
          type |-> "surface", name |-> "Tangent Plane",
          colorscale |-> IF dark THEN "YlOrRd" ELSE "Reds",
          visible |-> visibility.surface],
       point |->
         [x |-> <<px>>, y |-> <<py>>, z |-> <<f0>>,
          type |-> "scatter3d", name |-> <<formatNumber(px), formatNumber(py)>>,
          visible |-> TRUE],
       gradient |->
         [x |-> <<px, Add(px, Div(fx0, Num(2)))>>,
          y |-> <<py, Add(py, Div(fy0, Num(2)))>>,
          z |-> <<f0, Add(f0, Div(Add(fx0, fy0), Num(2)))>>,
          type |-> "scatter3d", name |-> "Gradient",
          visible |-> visibility.gradient],
       derivatives |-> [fx0 |-> fx0, fy0 |-> fy0, f0 |-> f0, fx |-> fx, fy |-> fy]]

\* PlotManager.generate3DPlotData(expr, x0, y0), when it does not throw;
\* visibility and dark are AppState.plotVisibility and AppState.isDarkMode
\* as the call reads them.
generate3DPlotData(expr, px, py, visibility, dark) ==
  LET f   == mathParse(expr)
      fx  == derivative(f, "x")
      fy  == derivative(f, "y")
      fx0 == evaluate(fx, px, py)
      fy0 == evaluate(fy, px, py)
      f0  == evaluate(f, px, py)
      F(x, y) == evaluate(f, x, y)
      T(x, y) == tangent(f0, fx0, fy0, px, py, x, y)
  IN  [surface |->
         [x |-> Grid3D, y |-> Grid3D,
          z |-> [i \in 1..Len(Grid3D) |->
                  [j \in 1..Len(Grid3D) |-> F(Grid3D[i], Grid3D[j])]],
          type |-> "surface", name |-> "f(x,y)",
          colorscale |-> IF dark THEN "Viridis" ELSE "Blues",
          visible |-> visibility.surface],
       tangentPlane |->
         [x |-> Grid3D, y |-> Grid3D,
          z |-> [i \in 1..Len(Grid3D) |->
                  [j \in 1..Len(Grid3D) |-> T(Grid3D[i], Grid3D[j])]],
          type |-> "surface", name |-> "Tangent Plane",
          colorscale |-> IF dark THEN "YlOrRd" ELSE "Reds",
          visible |-> visibility.tangentPlane],
       point |->
         [x |-> <<px>>, y |-> <<py>>, z |-> <<f0>>,
          type |-> "scatter3d", name |-> <<formatNumber(px), formatNumber(py)>>,
          visible |-> TRUE],
       gradient |->
         [x |-> <<px, Add(px, Div(fx0, Num(2)))>>,
          y |-> <<py, Add(py, Div(fy0, Num(2)))>>,
          z |-> <<f0, Add(f0, Div(Add(fx0, fy0), Num(2)))>>,
          type |-> "scatter3d", name |-> "Gradient",
          visible |-> visibility.gradient],
       derivatives |-> [fx0 |-> fx0, fy0 |-> fy0, f0 |-> f0, fx |-> fx, fy |-> fy]]

\* PlotManager.generate2DPlotData(expr, x0, y0), when it does not throw.
\* The vectors are pushed row by row: xs.forEach(x => ys.forEach(y => ...)).
generate2DPlotData(expr, px, py, visibility, dark) ==
  LET f   == mathParse(expr)
      fx  == derivative(f, "x")
      fy  == derivative(f, "y")
      n   == Len(Grid2D)
      F(x, y) == evaluate(f, x, y)
      Vec(k) ==
        LET x  == Grid2D[((k - 1) \div n) + 1]
            y  == Grid2D[((k - 1) % n) + 1]
            gx == evaluate(fx, x, y)
            gy == evaluate(fy, x, y)
        IN  [x |-> <<x, Add(x, Mul(<<1, 5>>, gx))>>,
             y |-> <<y, Add(y, Mul(<<1, 5>>, gy))>>,
             type |-> "scatter", visible |-> visibility.vectors]
  IN  [contour |->
         [x |-> Grid2D, y |-> Grid2D,
          z |-> [i \in 1..Len(Grid2D) |->
                  [j \in 1..Len(Grid2D) |-> F(Grid2D[i], Grid2D[j])]],
          type |-> "contour", visible |-> visibility.contour],
       vectors |-> [k \in 1..(n * n) |-> Vec(k)]]

\* A cache key that leaves the theme flag out.
cacheKeyNoTheme(expr, px, py, dark) ==
  expr \o <<"_">> \o NumberToString(px) \o <<"_">> \o NumberToString(py)

\* const cacheKey = `${expr}_${x0}_${y0}_${AppState.isDarkMode}`
cacheKey(expr, px, py, dark) ==
  expr \o <<"_">> \o NumberToString(px) \o <<"_">> \o NumberToString(py)
       \o <<"_">> \o BoolToString(dark)

\* ------------------------------------------------------------------------
\* State.
\* ------------------------------------------------------------------------

VARIABLES
  \* AppState
  currentFunction, x0, y0, isDarkMode, plotVisibility, cachedPlots, isLoading,
  \* DOM: the expression field, the two sliders and their labels, the
  \* analysis section (#info) and the request the two plot containers show
  func, x0Input, y0Input, labels, info, plots,
  \* localStorage.getItem('theme')
  savedTheme,
  \* plotFunction invocations suspended at `await Promise.all([...])`
  calls,
  \* Utils.debounce's closure variable, and the browser's pending timers
  timeout, timers,
  \* whether the load handler (initializeApp) has run
  loaded,
  \* history: invocations, input events, bursts and debounced executions
  \* counted; what the latest invocation did; the latest error notice; the
  \* latest assembly; every cachedPlots.set
  nextId, events, bursts, execs, lastCall, lastError, lastAsm, writes

vars ==
  <<currentFunction, x0, y0, isDarkMode, plotVisibility, cachedPlots, isLoading,
    func, x0Input, y0Input, labels, info, plots, savedTheme,
    calls, timeout, timers, loaded,
    nextId, events, bursts, execs, lastCall, lastError, lastAsm, writes>>

AllVisible ==
  [surface |-> TRUE, tangentPlane |-> TRUE, gradient |-> TRUE,
   contour |-> TRUE, vectors |-> TRUE]

NoCall ==
  [id |-> 0, cause |-> "none", outcome |-> "none", cached |-> FALSE,
   gen3d |-> FALSE, gen2d |-> FALSE, rendered |-> FALSE]

NoError == [id |-> 0, message |-> "none"]

NoAsm ==
  [expr |-> <<>>, x0 |-> NaN, y0 |-> NaN, visibility |-> AllVisible, dark |-> FALSE]

NoInfo == [id |-> 0, asm |-> NoAsm]

Init ==
  /\ currentFunction = TxtParab
  /\ x0 = Num(1)
  /\ y0 = Num(2)
  /\ isDarkMode = FALSE
  /\ plotVisibility = AllVisible
  /\ cachedPlots = {}
  /\ isLoading = FALSE
  /\ func = TxtParab
  /\ x0Input = ResetX0
  /\ y0Input = ResetY0
  /\ labels = <<formatNumber(Num(ResetX0)), formatNumber(Num(ResetY0))>>
  /\ info = NoInfo
  /\ plots = 0
  /\ savedTheme \in {"none", "dark", "light"}
  /\ calls = {}
  /\ timeout = 0
  /\ timers = {}
  /\ loaded = FALSE
  /\ nextId = 0
  /\ events = 0
  /\ bursts = 0
  /\ execs = 0
  /\ lastCall = NoCall
  /\ lastError = NoError
  /\ lastAsm = NoAsm
  /\ writes = {}

\* ------------------------------------------------------------------------
\* plotFunction, up to its await.
\* ------------------------------------------------------------------------

\* The handler that calls plotFunction has already written f, xi, yi (the
\* DOM fields), visibility and dark (AppState) when plotFunction reads them.
plotFunction(cause, f, xi, yi, visibility, dark) ==
  LET id   == nextId + 1
      expr == Trim(f)
      px   == ParseFloat(xi)
      py   == ParseFloat(yi)
      hit  == \E e \in cachedPlots : e.key = cacheKey(expr, px, py, dark)
      asm  == [expr |-> expr, x0 |-> px, y0 |-> py,
               visibility |-> visibility, dark |-> dark]
      Fail(outcome, message, g3) ==
        /\ lastCall' = [id |-> id, cause |-> cause, outcome |-> outcome,
                        cached |-> hit, gen3d |-> g3, gen2d |-> FALSE,
                        rendered |-> FALSE]
        /\ lastError' = [id |-> id, message |-> message]
        /\ isLoading' = FALSE
        /\ UNCHANGED <<calls, lastAsm>>
  IN
  /\ nextId' = id
  /\ IF expr = <<>>
       THEN /\ Fail("empty", "Please enter a function", FALSE)
            /\ UNCHANGED <<currentFunction, x0, y0>>
     ELSE IF ~validateExpression(expr)
       THEN /\ Fail("invalid", "Invalid function", FALSE)
            /\ UNCHANGED <<currentFunction, x0, y0>>
     ELSE
       /\ currentFunction' = expr
       /\ x0' = px
       /\ y0' = py
       /\ IF generateThrows(expr)
            THEN Fail("sampling", "Error generating 3D plot", TRUE)
            ELSE /\ calls' = calls \cup
                       {[id |-> id, raw |-> f, asm |-> asm]}
                 /\ lastAsm' = asm
                 /\ lastCall' = [id |-> id, cause |-> cause, outcome |-> "rendering",
                                 cached |-> hit, gen3d |-> TRUE, gen2d |-> TRUE,
                                 rendered |-> TRUE]
                 /\ isLoading' = TRUE
                 /\ UNCHANGED lastError

\* The user's operations so far: the direct invocations (all but the
\* initial and the debounced ones) and the input events.  The debounced
\* executions need no budget: each consumes a timer an event has set.
Ops == (nextId - execs - 1) + events

DirectBudget == loaded /\ Ops < MaxOps

\* ------------------------------------------------------------------------
\* Handlers.
\* ------------------------------------------------------------------------

\* window 'load': ThemeManager.init(), the listeners, the initial plot.
initializeApp ==
  /\ ~loaded
  /\ loaded' = TRUE
  /\ \E prefersDark \in BOOLEAN :
       /\ isDarkMode' = IF savedTheme # "none" THEN savedTheme = "dark" ELSE prefersDark
       /\ plotFunction("load", func, x0Input, y0Input, plotVisibility, isDarkMode')
  /\ UNCHANGED <<plotVisibility, cachedPlots, func, x0Input, y0Input, labels, info,
                 plots, savedTheme, timeout, timers, events, bursts,
                 execs, writes>>

Toggle(cause, visibility) ==
  /\ DirectBudget
  /\ plotVisibility' = visibility
  /\ plotFunction(cause, func, x0Input, y0Input, visibility, isDarkMode)
  /\ UNCHANGED <<isDarkMode, cachedPlots, func, x0Input, y0Input, labels, info,
                 plots, savedTheme, timeout, timers, loaded, events,
                 bursts, execs, writes>>

toggleSurface ==
  Toggle("toggleSurface", [plotVisibility EXCEPT !.surface = ~@])

togglePlane ==
  Toggle("togglePlane", [plotVisibility EXCEPT !.tangentPlane = ~@])

toggleGradient ==
  Toggle("toggleGradient", [plotVisibility EXCEPT !.gradient = ~@])

toggleContour ==
  Toggle("toggleContour", [plotVisibility EXCEPT !.contour = ~@])

toggleVectors ==
  Toggle("toggleVectors", [plotVisibility EXCEPT !.vectors = ~@])

\* ThemeManager.toggleTheme (the button, or Ctrl/Cmd + D)
toggleTheme ==
  /\ DirectBudget
  /\ isDarkMode' = ~isDarkMode
  /\ savedTheme' = IF isDarkMode' THEN "dark" ELSE "light"
  /\ IF currentFunction # <<>>
       THEN plotFunction("toggleTheme", func, x0Input, y0Input, plotVisibility,
                         isDarkMode')
       ELSE UNCHANGED <<currentFunction, x0, y0, isLoading, calls, nextId,
                        lastCall, lastError, lastAsm>>
  /\ UNCHANGED <<plotVisibility, cachedPlots, func, x0Input, y0Input, labels, info,
                 plots, timeout, timers, loaded, events, bursts, execs,
                 writes>>

\* updateLabels, for slider values xi and yi
updateLabels(xi, yi) ==
  labels' = <<formatNumber(ParseFloat(xi)), formatNumber(ParseFloat(yi))>>

\* resetView (the button, or the R key)
resetView ==
  /\ DirectBudget
  /\ x0Input' = ResetX0
  /\ y0Input' = ResetY0
  /\ updateLabels(ResetX0, ResetY0)
  /\ plotVisibility' = AllVisible
  /\ plotFunction("resetView", func, ResetX0, ResetY0, AllVisible, isDarkMode)
  /\ UNCHANGED <<isDarkMode, cachedPlots, func, info, plots, savedTheme,
                 timeout, timers, loaded, events, bursts, execs, writes>>

\* the preset <select>'s change listener, for a non-empty option value
presetChange ==
  /\ DirectBudget
  /\ \E t \in PresetTexts :
       /\ func' = t
       /\ plotFunction("preset", t, x0Input, y0Input, plotVisibility, isDarkMode)
  /\ UNCHANGED <<isDarkMode, plotVisibility, cachedPlots, x0Input, y0Input, labels,
                 info, plots, savedTheme, timeout, timers, loaded,
                 events, bursts, execs, writes>>

\* keydown: Enter, without Shift or Ctrl
keyEnter ==
  /\ DirectBudget
  /\ plotFunction("enter", func, x0Input, y0Input, plotVisibility, isDarkMode)
  /\ UNCHANGED <<isDarkMode, plotVisibility, cachedPlots, func, x0Input, y0Input,
                 labels, info, plots, savedTheme, timeout, timers,
                 loaded, events, bursts, execs, writes>>
\* ------------------------------------------------------------------------
\* Utils.debounce(plotFunction, 300) and the timers it sets.
\* ------------------------------------------------------------------------

Min(a, b) == IF a < b THEN a ELSE b

\* A clearTimeout that cancels nothing.
clearTimeoutForgotten(ts, id) == ts

\* clearTimeout(id) on the timer table ts
clearTimeout(ts, id) == {t \in ts : t.id # id}

\* executedFunction: clearTimeout(timeout); timeout = setTimeout(later, wait).
\* An event opens a new burst unless it arrives less than Wait after the
\* previous one, whose timer is then still pending and younger than Wait.
executedFunction ==
  LET id == events + 1 IN
  /\ events' = id
  /\ timers' = clearTimeout(timers, timeout) \cup {[id |-> id, age |-> 0]}
  /\ timeout' = id
  /\ bursts' = IF \E t \in timers : t.id = timeout /\ t.age < Wait
                 THEN bursts ELSE bursts + 1

InputFrame ==
  UNCHANGED <<currentFunction, x0, y0, isDarkMode, plotVisibility, cachedPlots,
              isLoading, info, plots, savedTheme, calls, loaded,
              nextId, execs, lastCall, lastError, lastAsm, writes>>

\* 'input' on #func: the user has edited the expression
funcInput ==
  /\ loaded /\ Ops < MaxOps
  /\ \E t \in TypedTexts : func' = t
  /\ executedFunction
  /\ UNCHANGED <<x0Input, y0Input, labels>>
  /\ InputFrame

\* 'input' on #x0: updateLabels(); debouncedPlot()
x0InputEvent ==
  /\ loaded /\ Ops < MaxOps
  /\ \E v \in SliderValues : x0Input' = v
  /\ updateLabels(x0Input', y0Input)
  /\ executedFunction
  /\ UNCHANGED <<func, y0Input>>
  /\ InputFrame

\* 'input' on #y0: updateLabels(); debouncedPlot()
y0InputEvent ==
  /\ loaded /\ Ops < MaxOps
  /\ \E v \in SliderValues : y0Input' = v
  /\ updateLabels(x0Input, y0Input')
  /\ executedFunction
  /\ UNCHANGED <<func, x0Input>>
  /\ InputFrame

\* Time passes: every pending timer ages.  A timer that has reached Wait is
\* due; its callback runs when the event loop gets to it (timerFire).
tick ==
  /\ \E t \in timers : t.age < Wait
  /\ timers' = {[id |-> t.id, age |-> Min(t.age + TickMs, Wait)] : t \in timers}
  /\ UNCHANGED <<currentFunction, x0, y0, isDarkMode, plotVisibility, cachedPlots,
                 isLoading, func, x0Input, y0Input, labels, info, plots,
                 savedTheme, calls, timeout, loaded, nextId, events, bursts,
                 execs, lastCall, lastError, lastAsm, writes>>

\* later: clearTimeout(timeout); func(...args)
timerFire ==
  /\ \E t \in timers :
       /\ t.age >= Wait
       /\ timers' = clearTimeout(timers \ {t}, timeout)
  /\ execs' = execs + 1
  /\ plotFunction("debounced", func, x0Input, y0Input, plotVisibility, isDarkMode)
  /\ UNCHANGED <<isDarkMode, plotVisibility, cachedPlots, func, x0Input, y0Input,
                 labels, info, plots, savedTheme, timeout, loaded,
                 events, bursts, writes>>

\* ------------------------------------------------------------------------
\* plotFunction, after its await.
\* ------------------------------------------------------------------------

\* Both renders of c have resolved: updateAnalysisSection, the cache write,
\* hideLoading.  The key reads AppState.isDarkMode as it is now.
resume(c) ==
  LET key == cacheKey(c.asm.expr, c.asm.x0, c.asm.y0, isDarkMode) IN
  /\ info' = [id |-> c.id, asm |-> c.asm]
  /\ cachedPlots' = {e \in cachedPlots : e.key # key}
                      \cup {[key |-> key, value |-> c.asm]}
  /\ writes' = writes \cup
       {[id |-> c.id, raw |-> c.raw, x0 |-> c.asm.x0, y0 |-> c.asm.y0,
         dark |-> isDarkMode, key |-> key]}
  /\ isLoading' = FALSE
  /\ calls' = calls \ {c}

RenderFrame ==
  UNCHANGED <<currentFunction, x0, y0, isDarkMode, plotVisibility, func, x0Input,
              y0Input, labels, savedTheme, timeout, timers, loaded, nextId,
              events, bursts, execs, lastCall, lastError, lastAsm>>

\* Both Plotly.newPlot promises of a pending invocation have resolved, so
\* Promise.all resolves and the invocation resumes in the same turn of the
\* event loop.
renderDone ==
  /\ \E c \in calls :
       /\ plots' = c.id
       /\ resume(c)
  /\ RenderFrame

\* One of the two renders of a pending invocation rejects: Promise.all
\* rejects, the catch block shows the error, finally hides the overlay.
renderFail ==
  /\ \E c \in calls :
       /\ calls' = calls \ {c}
       /\ lastError' = [id |-> c.id, message |-> "render"]
  /\ isLoading' = FALSE
  /\ UNCHANGED <<currentFunction, x0, y0, isDarkMode, plotVisibility, cachedPlots,
                 func, x0Input, y0Input, labels, info, plots, savedTheme,
                 timeout, timers, loaded, nextId, events, bursts, execs,
                 lastCall, lastAsm, writes>>

Next ==
  \/ initializeApp
  \/ toggleSurface
  \/ togglePlane
  \/ toggleGradient
  \/ toggleContour
  \/ toggleVectors
  \/ toggleTheme
  \/ resetView
  \/ presetChange
  \/ keyEnter
  \/ funcInput
  \/ x0InputEvent
  \/ y0InputEvent
  \/ tick
  \/ timerFire
  \/ renderDone
  \/ renderFail

Spec == Init /\ [][Next]_vars

\* Time passes, and the event loop runs a timer callback that stays due.
LiveSpec == Spec /\ WF_vars(tick) /\ WF_vars(timerFire)

\* ------------------------------------------------------------------------
\* Properties.
\* ------------------------------------------------------------------------

\* The step is a plotFunction invocation.
Invoked == nextId' # nextId

\* The expression field holds a text that is empty after trimming, does not
\* parse, or does not evaluate at the test point.
InvalidInput(f) ==
  LET e == Trim(f) IN
  \/ e = <<>>
  \/ mathParse(e) = "SyntaxError"
  \/ evaluateThrows(mathParse(e))

\* The text passes validation, and sampling it throws.
SamplingFails(f) == ~InvalidInput(f) /\ generateThrows(Trim(f))

\* C1: a plot request whose expression is empty after trimming, fails to
\* parse or fails to evaluate at the test point reports an error, invokes
\* neither generator nor any render, and leaves AppState.currentFunction,
\* AppState.x0, AppState.y0 and the cache as they were.
C1_InvalidRequestChangesNothing ==
  [][(Invoked /\ InvalidInput(func')) =>
       /\ lastError'.id = nextId'
       /\ ~lastCall'.gen3d /\ ~lastCall'.gen2d /\ ~lastCall'.rendered
       /\ calls' = calls /\ plots' = plots
       /\ currentFunction' = currentFunction /\ x0' = x0 /\ y0' = y0
       /\ cachedPlots' = cachedPlots]_vars

\* A request has just failed at the test-point evaluation while an earlier
\* request is still awaiting its renders, and the rejected text has not
\* replaced the last good expression.
C1_Witness ==
  /\ lastCall.outcome = "invalid"
  /\ mathParse(Trim(func)) = "unbound"
  /\ lastError.id = lastCall.id
  /\ currentFunction # Trim(func)
  /\ calls # {}

\* C2: a plot request whose expression passes validation but whose sampling
\* throws reports the error, invokes no render, and leaves
\* AppState.currentFunction, AppState.x0 and AppState.y0 as they were.
C2_SamplingFailureChangesNothing ==
  [][(Invoked /\ SamplingFails(func')) =>
       /\ lastError'.id = nextId'
       /\ ~lastCall'.rendered
       /\ calls' = calls /\ plots' = plots
       /\ currentFunction' = currentFunction /\ x0' = x0 /\ y0' = y0]_vars

\* C3: once a later-issued request has updated the analysis section, no
\* earlier-issued request's result is applied afterwards.
C3_OnlyLatestResultApplied == [][info'.id >= info.id]_vars

\* C4: at most one plot request is in progress at any time.
C4_AtMostOneRequestInProgress == Cardinality(calls) <= 1

\* A debounce timer is pending.
TimerPending == timers # {}

\* C5 (as stated): every burst of input events, each less than 300 ms after
\* the previous one, gets exactly one execution of the debounced function,
\* after the burst; at most one debounce timer is pending.  So the bursts
\* begun and the executions differ by the burst whose timer is pending.
C5_ExactlyOncePerBurst ==
  /\ Cardinality(timers) <= 1
  /\ execs = bursts - (IF TimerPending THEN 1 ELSE 0)

\* C5 (amended): at most one debounce timer is pending; the debounced
\* function never runs during a burst and at most once per burst; it runs
\* only when the timer of the latest event is at least Wait old, and leaves
\* no timer pending; and a pending timer is eventually followed by an
\* execution.  (A burst gets no execution of its own when the next event's
\* handler runs before the burst's due callback and clears it.)
C5_TrailingExecution ==
  /\ [](Cardinality(timers) <= 1)
  /\ [](execs + (IF TimerPending THEN 1 ELSE 0) <= bursts)
  /\ [][execs' # execs =>
          /\ \E t \in timers : t.id = timeout /\ t.age >= Wait
          /\ execs' = execs + 1
          /\ timers' = {}]_vars
  /\ [](TimerPending => <>(~TimerPending))

\* Two events of one burst have been coalesced into one execution.
C5_Witness ==
  /\ events = 2
  /\ bursts = 1
  /\ execs = 1
  /\ ~TimerPending

\* C6: a request whose key is already in the cache does not invoke the
\* generators again.
C6_CacheHitSkipsSampling ==
  lastCall.cached => (~lastCall.gen3d /\ ~lastCall.gen2d)

\* C7 (as stated): two successful requests write the same cache key exactly
\* when their expression text as entered, x0, y0 and theme flag are equal.
C7_KeyIsExactTuple ==
  \A v, w \in writes :
    (v.key = w.key) <=>
      (v.raw = w.raw /\ v.x0 = w.x0 /\ v.y0 = w.y0 /\ v.dark = w.dark)

\* C7 (amended): two successful requests write the same cache key exactly
\* when their expression text with leading and trailing blanks removed,
\* x0, y0 and the theme flag in force when the result is cached are equal.
C7_KeyIsTrimmedTuple ==
  \A v, w \in writes :
    (v.key = w.key) <=>
      (Trim(v.raw) = Trim(w.raw) /\ v.x0 = w.x0 /\ v.y0 = w.y0 /\ v.dark = w.dark)

\* Two texts that differ only by a trailing blank share a key.
C7_Witness ==
  \E v, w \in writes : v.raw # w.raw /\ v.key = w.key

Data3D(a) == generate3DPlotData(a.expr, a.x0, a.y0, a.visibility, a.dark)

Data2D(a) == generate2DPlotData(a.expr, a.x0, a.y0, a.visibility, a.dark)

\* The plane f0 + fx0*(x - x0) + fy0*(y - y0) of expression node f at
\* the center (px, py), evaluated at (x, y).
Plane(f, px, py, x, y) ==
  Add(Add(evaluate(f, px, py),
          Mul(evaluate(derivative(f, "x"), px, py), Sub(x, px))),
      Mul(evaluate(derivative(f, "y"), px, py), Sub(y, py)))

\* C8: in every assembly the tangent-plane series follows
\* f0 + fx0*(x - x0) + fy0*(y - y0) at every grid pair, and the tangent
\* plane's value at the center point equals f(x0, y0).
C8_TangentTouchesSurface ==
  [][(Invoked /\ lastCall'.rendered) =>
       LET a == lastAsm'
           f == mathParse(a.expr)
           P(x, y) == Plane(f, a.x0, a.y0, x, y)
       IN  /\ Data3D(a).tangentPlane.z =
              [i \in 1..Len(Grid3D) |->
                 [j \in 1..Len(Grid3D) |-> P(Grid3D[i], Grid3D[j])]]
           /\ P(a.x0, a.y0) = evaluate(f, a.x0, a.y0)]_vars

ToggleFlag ==
  [toggleSurface |-> "surface", togglePlane |-> "tangentPlane",
   toggleGradient |-> "gradient", toggleContour |-> "contour",
   toggleVectors |-> "vectors"]

\* d with the visible attribute of the series of `flag` inverted
Flip3D(d, flag) ==
  CASE flag = "surface"      -> [d EXCEPT !.surface.visible = ~@]
    [] flag = "tangentPlane" -> [d EXCEPT !.tangentPlane.visible = ~@]
    [] flag = "gradient"     -> [d EXCEPT !.gradient.visible = ~@]
    [] OTHER                 -> d

Flip2D(d, flag) ==
  CASE flag = "contour" -> [d EXCEPT !.contour.visible = ~@]
    [] flag = "vectors" ->
         [d EXCEPT !.vectors =
            [k \in DOMAIN d.vectors |->
               [d.vectors[k] EXCEPT !.visible = ~d.vectors[k].visible]]]
    [] OTHER -> d

\* C9: each toggle inverts its own visibility flag and no other; and when
\* the toggle's assembly follows an assembly made with the flags as they
\* were before the toggle and with the same expression, point and theme, the
\* two assemblies differ in the visible attribute of the toggled series
\* alone (of every segment, for the vectors), and the point marker is
\* visible.
C9_ToggleFlipsOnlyItsSeries ==
  [][(Invoked /\ lastCall'.cause \in DOMAIN ToggleFlag) =>
       LET flag == ToggleFlag[lastCall'.cause] IN
       /\ plotVisibility' = [plotVisibility EXCEPT ![flag] = ~@]
       /\ (/\ lastCall'.rendered
           /\ lastAsm = [lastAsm' EXCEPT !.visibility = plotVisibility])
          => /\ Data3D(lastAsm') = Flip3D(Data3D(lastAsm), flag)
             /\ Data2D(lastAsm') = Flip2D(Data2D(lastAsm), flag)
             /\ Data3D(lastAsm').point.visible]_vars

\* togglePlane has just hidden the tangent plane, and the plot was
\* reassembled with everything else visible.
C9_Witness ==
  /\ lastCall.cause = "togglePlane"
  /\ lastCall.rendered
  /\ lastAsm.visibility = [AllVisible EXCEPT !.tangentPlane = FALSE]
  /\ plotVisibility = lastAsm.visibility

\* C10: AppState.isLoading is true exactly when a plotFunction invocation
\* has started and not reached its finally block.
C10_LoadingIffRequestInProgress == isLoading <=> (calls # {})

====
